---- MODULE Spec2Model ----
(***************************************************************************)
(* The thread manager of src/src/thread-manager.js and the WebThread       *)
(* wrapper of src/src/web-thread.js.                                       *)
(*                                                                         *)
(* The coordinator is single threaded: every operation below (run, the     *)
(* limit setter, purge, terminate(), the receipt of a message of a worker) *)
(* runs to completion before the next one starts, so each is one action.   *)
(* An action is the whole handler, the calls it makes included: the drain  *)
(* of the queue (updateThreadQueue) after a termination or a change of the *)
(* limit is part of the action that triggers it.                           *)
(*                                                                         *)
(* Tasks are numbered in the order in which they are submitted, handles in *)
(* the order in which they are created.                                    *)
(*                                                                         *)
(* A worker is reached by messages only.  The record of a handle keeps the *)
(* two ends: what the WebThread holds on the coordinator's side (result,   *)
(* the messages of the worker not yet delivered) and what the worker holds *)
(* (the messages posted to it and not yet received, its replica of the     *)
(* shared memory, whether its body has started).                           *)
(***************************************************************************)
EXTENDS Integers, Sequences, FiniteSets, TLC

\* Bounds of the model.
MaxTasks == 4
MaxLimit == 3
MaxRepeats == 1
MaxLiveTasks == 3
MaxExecTasks == 2
MaxSharedTasks == 2
MaxInFlight == 2
MaxStack == 3

\* let threadLimit = 4;
DefaultLimit == 4

VARIABLES
    threadLimit,    \* let threadLimit
    sharedMemory,   \* const sharedMemory: the coordinator's replica
    threadRunning,  \* const threadRunning: the handles running, in the array's order
    threadQueue,    \* const threadQueue: the tasks waiting, in the array's order
    tasks,          \* one record per task submitted: the callback and its promise
    handles,        \* one record per WebThread constructed
    burst           \* history: submissions since the manager was last idle

vars == <<threadLimit, sharedMemory, threadRunning, threadQueue, tasks, handles, burst>>

Range(s) == {s[i] : i \in 1..Len(s)}

Min(a, b) == IF a < b THEN a ELSE b

Max(a, b) == IF a > b THEN a ELSE b

(***************************************************************************)
(* The state of the module as one record, so that the functions of the     *)
(* module, which call one another, are operators from state to state.      *)
(***************************************************************************)
State ==
    [threadLimit |-> threadLimit, sharedMemory |-> sharedMemory,
     threadRunning |-> threadRunning, threadQueue |-> threadQueue,
     tasks |-> tasks, handles |-> handles,
     stack |-> [frames |-> 0, deepest |-> 0]]

Commit(S) ==
    /\ threadLimit' = S.threadLimit
    /\ sharedMemory' = S.sharedMemory
    /\ threadRunning' = S.threadRunning
    /\ threadQueue' = S.threadQueue
    /\ tasks' = S.tasks
    /\ handles' = S.handles

(***************************************************************************)
(* JavaScript values offered to the limit setter.  A number is kept in     *)
(* halves (num2 = 2 * value) so that Math.round has something to round.    *)
(***************************************************************************)
NumberValues == [type : {"number"}, num2 : (-2)..(2 * MaxLimit + 1)]

OtherValues ==
    {[type |-> "NaN"], [type |-> "undefined"], [type |-> "null"],
     [type |-> "boolean", bool |-> TRUE], [type |-> "boolean", bool |-> FALSE],
     [type |-> "string", chars |-> <<>>], [type |-> "string", chars |-> <<"a">>],
     [type |-> "string", chars |-> <<"2">>], [type |-> "string", chars |-> <<"1", "a">>]}

LimitInputs == NumberValues \cup OtherValues

NaN == [type |-> "NaN"]

Digit(c) == CASE c = "0" -> 0 [] c = "1" -> 1 [] c = "2" -> 2 [] OTHER -> -1

RECURSIVE StringToNumber(_, _)
\* The decimal value of a string of digits (in halves), NaN when a character is no digit.
StringToNumber(chars, acc) ==
    IF chars = <<>> THEN [type |-> "number", num2 |-> 2 * acc]
    ELSE IF Digit(Head(chars)) < 0 THEN NaN
    ELSE StringToNumber(Tail(chars), 10 * acc + Digit(Head(chars)))

\* Number(value)
Number(value) ==
    CASE value.type = "number" -> value
      [] value.type = "NaN" -> NaN
      [] value.type = "undefined" -> NaN
      [] value.type = "null" -> [type |-> "number", num2 |-> 0]
      [] value.type = "boolean" -> [type |-> "number", num2 |-> IF value.bool THEN 2 ELSE 0]
      [] value.type = "string" -> StringToNumber(value.chars, 0)

isNaN(value) == value.type = "NaN"

\* Math.round of a number kept in halves: floor(x + 0.5)
MathRound(num2) == (num2 + 1) \div 2

(***************************************************************************)
(* Promises of run(): resolve and reject settle a pending promise and do   *)
(* nothing to a settled one.                                               *)
(***************************************************************************)
resolve(S, task) ==
    [S EXCEPT !.tasks[task].promise = IF @ = "pending" THEN "resolved" ELSE @,
              !.tasks[task].settled = @ + 1]

reject(S, task) ==
    [S EXCEPT !.tasks[task].promise = IF @ = "pending" THEN "rejected" ELSE @,
              !.tasks[task].settled = @ + 1]

(***************************************************************************)
(* The shared memory: an object with the properties of Keys; a property    *)
(* that was never set reads 0 (undefined).                                 *)
(***************************************************************************)
Keys == {"a", "b"}

\* The assignments made to the shared memory, by the coordinator and by the
\* bodies of the tasks.
Writes == {<<"a", 1>>, <<"a", 2>>, <<"b", 1>>}

\* const sharedMemory = {};  let data = {};
EmptyObject == [k \in Keys |-> 0]

\* Object.assign(data, value)
ObjectAssign(data, value) == [k \in Keys |-> IF value[k] # 0 THEN value[k] ELSE data[k]]

(***************************************************************************)
(* The messages between the coordinator and a worker.                      *)
(***************************************************************************)
IdMessage(id) == [type |-> "shared-memory-id", value |-> id]

InitMessage(snapshot) == [type |-> "shared-memory-init", value |-> snapshot]

UpdateMessage(property, value) ==
    [type |-> "shared-memory-update", property |-> property, value |-> value]

UpdatedMessage(property, value) ==
    [type |-> "shared-memory-updated", property |-> property, value |-> value]

(***************************************************************************)
(* The values a task passes to exit(): null, a string, an ArrayBuffer.  An *)
(* object belongs to the realm that made it; a message carries a           *)
(* structured clone of its value, an object of the receiving realm with    *)
(* the same contents.                                                      *)
(***************************************************************************)
Null == [type |-> "null"]

ArrayBuffer(bytes, realm) == [type |-> "ArrayBuffer", bytes |-> bytes, realm |-> realm]

ExitPayloads ==
    {Null, [type |-> "string", chars |-> <<"a">>], ArrayBuffer(<<1, 2>>, "worker")}

\* An object with enumerable properties: their values, in the order of for-in.
Object(props) == [type |-> "object", props |-> props]

\* The value of a property that is the object itself (levels = 1) or the
\* object that holds it levels - 1 objects above: a value that refers to
\* itself.
Up(levels) == [type |-> "up", levels |-> levels]

\* Values passed to exit(): the ones above, objects that hold a buffer
\* directly or one object below, and objects that refer to themselves.
TransferPayloads ==
    ExitPayloads \cup
    {Object(<<[type |-> "string", chars |-> <<"a">>], ArrayBuffer(<<1, 2>>, "worker")>>),
     Object(<<Object(<<ArrayBuffer(<<1, 2>>, "worker")>>)>>),
     Object(<<Up(1)>>),
     Object(<<Object(<<Up(2)>>), ArrayBuffer(<<1, 2>>, "worker")>>)}

RECURSIVE structuredClone(_, _)
\* The structured clone keeps the shape of the value, references of an object
\* to itself included; what it holds belongs to the receiving realm.
structuredClone(value, realm) ==
    CASE value.type = "ArrayBuffer" -> ArrayBuffer(value.bytes, realm)
      [] value.type = "object" ->
             Object([i \in 1..Len(value.props) |-> structuredClone(value.props[i], realm)])
      [] OTHER -> value

\* Boolean(obj) and typeof obj
Truthy(obj) == obj.type # "null" /\ ~(obj.type = "string" /\ obj.chars = <<>>)
TypeOf(obj) == IF obj.type = "string" THEN "string" ELSE "object"

\* for (let i in obj): the values of the enumerable properties
Enumerable(obj) == IF obj.type = "object" THEN obj.props ELSE <<>>

\* obj[i] for an object reached through the objects of path, the outermost
\* first: the value, and the objects through which it is reached.
Ref(path, prop) ==
    IF prop.type = "up"
    THEN [obj |-> path[Len(path) - prop.levels + 1],
          path |-> SubSeq(path, 1, Len(path) - prop.levels)]
    ELSE [obj |-> prop, path |-> path]

\* isTransferable of exitFunction: the arrow function computes result and
\* returns nothing, and undefined is falsy
isTransferable(obj) == FALSE

RECURSIVE checkForTransferable(_, _, _)
\* checkForTransferable: transferable as the calls leave it, and whether the
\* calls, frames of them nested at this one, exhausted the stack (a
\* RangeError, which nothing catches).  The function keeps no record of the
\* objects it has visited.
checkForTransferable(obj, path, frames) ==
    LET ForIn[i \in 0..Len(Enumerable(obj))] ==
            IF i = 0 THEN [list |-> <<>>, thrown |-> FALSE]
            ELSE IF ForIn[i - 1].thrown THEN ForIn[i - 1]
            ELSE LET ref == Ref(Append(path, obj), Enumerable(obj)[i])
                     call == checkForTransferable(ref.obj, ref.path, frames + 1)
                 IN  [list |-> ForIn[i - 1].list \o call.list, thrown |-> call.thrown]
    IN  IF frames > MaxStack THEN [list |-> <<>>, thrown |-> TRUE]
        ELSE IF isTransferable(obj) THEN [list |-> <<obj>>, thrown |-> FALSE]
        ELSE IF Truthy(obj) /\ TypeOf(obj) = "object" THEN ForIn[Len(Enumerable(obj))]
        ELSE [list |-> <<>>, thrown |-> FALSE]

\* exitFunction: the message posted, the value (moved or cloned) as the
\* coordinator's realm receives it
exitFunction(value) ==
    [type |-> "thread-terminate", value |-> structuredClone(value, "main"),
     transfer |-> checkForTransferable(value, <<>>, 1).list]

(***************************************************************************)
(* createThread: a task whose url cannot be loaded (it is no function) or  *)
(* whose WebThread cannot be constructed yields no thread.  Otherwise the  *)
(* new handle is pushed on threadRunning; the handle's record keeps        *)
(* whether threadRunning was shorter than the limit at the time of the     *)
(* push.  The constructor of WebThread posts the id of the thread and      *)
(* createThread posts the shared memory as it is then; the worker starts   *)
(* with an empty replica.                                                  *)
(***************************************************************************)
\* Mutant: the handle is pushed on threadRunning before the statement that
\* fails, and stays there.
createThread_pushFirst(S, task) ==
    [thread |-> IF S.tasks[task].spawns THEN Len(S.handles) + 1 ELSE 0,
     S |-> [S EXCEPT
              !.handles = Append(@, [task |-> task, fired |-> 0,
                                     slotFree |-> Len(S.threadRunning) < S.threadLimit,
                                     result |-> Null, outbox |-> <<>>,
                                     inbox |-> <<IdMessage(Len(S.handles) + 1)>>,
                                     data |-> EmptyObject, threadId |-> 0,
                                     started |-> FALSE, thrown |-> FALSE]),
              !.threadRunning = Append(@, Len(S.handles) + 1)]]

\* Mutant: the worker is posted an empty object instead of the shared memory.
createThread_emptyInit(S, task) ==
    IF S.tasks[task].spawns
    THEN [thread |-> Len(S.handles) + 1,
          S |-> [S EXCEPT
                   !.handles = Append(@, [task |-> task, fired |-> 0,
                                          slotFree |-> Len(S.threadRunning) < S.threadLimit,
                                          result |-> Null, outbox |-> <<>>,
                                          inbox |-> <<IdMessage(Len(S.handles) + 1),
                                                      InitMessage(EmptyObject)>>,
                                          data |-> EmptyObject, threadId |-> 0,
                                          started |-> FALSE, thrown |-> FALSE]),
                   !.threadRunning = Append(@, Len(S.handles) + 1)]]
    ELSE [thread |-> 0, S |-> S]

\* Mutant: the thread is not pushed on threadRunning.
createThread_noPush(S, task) ==
    IF S.tasks[task].spawns
    THEN [thread |-> Len(S.handles) + 1,
          S |-> [S EXCEPT
                   !.handles = Append(@, [task |-> task, fired |-> 0,
                                          slotFree |-> Len(S.threadRunning) < S.threadLimit,
                                          result |-> Null, outbox |-> <<>>,
                                          inbox |-> <<IdMessage(Len(S.handles) + 1),
                                                      InitMessage(S.sharedMemory)>>,
                                          data |-> EmptyObject, threadId |-> 0,
                                          started |-> FALSE, thrown |-> FALSE])]]
    ELSE [thread |-> 0, S |-> S]

\* Mutant: the thread is pushed on threadRunning twice.
createThread_pushTwice(S, task) ==
    IF S.tasks[task].spawns
    THEN [thread |-> Len(S.handles) + 1,
          S |-> [S EXCEPT
                   !.handles = Append(@, [task |-> task, fired |-> 0,
                                          slotFree |-> Len(S.threadRunning) < S.threadLimit,
                                          result |-> Null, outbox |-> <<>>,
                                          inbox |-> <<IdMessage(Len(S.handles) + 1),
                                                      InitMessage(S.sharedMemory)>>,
                                          data |-> EmptyObject, threadId |-> 0,
                                          started |-> FALSE, thrown |-> FALSE]),
                   !.threadRunning = Append(Append(@, Len(S.handles) + 1), Len(S.handles) + 1)]]
    ELSE [thread |-> 0, S |-> S]

createThread(S, task) ==
    IF S.tasks[task].spawns
    THEN [thread |-> Len(S.handles) + 1,
          S |-> [S EXCEPT
                   !.handles = Append(@, [task |-> task, fired |-> 0,
                                          slotFree |-> Len(S.threadRunning) < S.threadLimit,
                                          result |-> Null, outbox |-> <<>>,
                                          inbox |-> <<IdMessage(Len(S.handles) + 1),
                                                      InitMessage(S.sharedMemory)>>,
                                          data |-> EmptyObject, threadId |-> 0,
                                          started |-> FALSE, thrown |-> FALSE]),
                   !.threadRunning = Append(@, Len(S.handles) + 1)]]
    ELSE [thread |-> 0, S |-> S]

\* Mutant: the drain forgets the limit.
drainCondition_noLimit(S) == Len(S.threadQueue) > 0

\* Mutant: the drain admits one handle too many.
drainCondition_le(S) ==
    Len(S.threadQueue) > 0 /\ Len(S.threadRunning) <= S.threadLimit

\* threadQueue.length > 0 && threadRunning.length < threadLimit
drainCondition(S) ==
    Len(S.threadQueue) > 0 /\ Len(S.threadRunning) < S.threadLimit

RECURSIVE updateThreadQueue(_)
RECURSIVE executeThread(_, _)
RECURSIVE while(_)

\* Mutant: the else is missing, and a task whose thread was created goes on
\* to the drain and to reject().
executeThread_noElse(S, task) ==
    LET made == createThread(S, task) IN
    IF made.thread # 0
    THEN reject(updateThreadQueue(resolve(made.S, task)), task)
    ELSE reject(updateThreadQueue(made.S), task)

executeThread(S, task) ==
    LET made == createThread(S, task) IN
    IF made.thread # 0
    THEN resolve(made.S, task)
    ELSE reject(updateThreadQueue(made.S), task)

\* Mutant: an if in place of the while, one task per call.
while_if(from) ==
    LET S == from IN
    IF drainCondition(S)
    THEN executeThread([S EXCEPT !.threadQueue = Tail(@),
                                 !.tasks[Head(S.threadQueue)].shifted = @ + 1],
                       Head(S.threadQueue))
    ELSE S

\* The loop of updateThreadQueue: executeThread(threadQueue.shift()).  S is
\* the coordinator as the loop finds it, the value of from.
while(from) ==
    CHOOSE result \in
        {IF drainCondition(S)
         THEN while(executeThread([S EXCEPT !.threadQueue = Tail(@),
                                            !.tasks[Head(S.threadQueue)].shifted = @ + 1],
                                  Head(S.threadQueue)))
         ELSE S : S \in {from}} : TRUE

\* A call of updateThreadQueue is one more frame of it on the stack until it
\* returns; stack keeps how many there are and how many there were at most.
Enter(S) ==
    [S EXCEPT !.stack = [frames |-> @.frames + 1, deepest |-> Max(@.deepest, @.frames + 1)]]

Return(S) == [S EXCEPT !.stack.frames = @ - 1]

updateThreadQueue(S) == Return(while(Enter(S)))

\* threadRunning.indexOf(thread), 0 for "not found"
indexOf(seq, x) ==
    IF x \in Range(seq) THEN CHOOSE i \in 1..Len(seq) : seq[i] = x /\ \A j \in 1..(i - 1) : seq[j] # x
    ELSE 0

\* Mutant: splice(index), which removes the elements from index on.
splice_toEnd(seq, index) == SubSeq(seq, 1, index - 1)

\* threadRunning.splice(index, 1)
splice(seq, index) == [i \in 1..(Len(seq) - 1) |-> IF i < index THEN seq[i] ELSE seq[i + 1]]

\* Mutant: the slot is freed and the queue is left alone.
threadTerminated_noDrain(S, thread) ==
    LET index == indexOf(S.threadRunning, thread) IN
    IF index > 0
    THEN [S EXCEPT !.threadRunning = splice(@, index)]
    ELSE S

threadTerminated(S, thread) ==
    LET index == indexOf(S.threadRunning, thread) IN
    IF index > 0
    THEN updateThreadQueue([S EXCEPT !.threadRunning = splice(@, index)])
    ELSE S

(***************************************************************************)
(* execute(): the listener it adds to the handle of its task resolves the  *)
(* promise of execute() with the result the event carries.  The task's     *)
(* record keeps where execute() stands: "none" for a task given to run(),  *)
(* "awaiting" while execute() awaits the promise of run(), "listening"     *)
(* once its listener is on the handle, "resolved" or "rejected" in the end.*)
(* It also keeps what the listener found when it resolved the promise:     *)
(* whether the manager was done with the termination of the handle.        *)
(***************************************************************************)
\* event => resolve(event.result), on the record of the task
executeListener(task, eventResult, handled) ==
    IF task.execute = "listening"
    THEN [task EXCEPT !.execute = "resolved", !.value = eventResult, !.handled = handled]
    ELSE task

(***************************************************************************)
(* WebThread.terminate: dispatches a "terminate" event that carries        *)
(* this.result, on which the listeners run in the order in which they were *)
(* added, the manager's (threadTerminated) and then the one of execute(),  *)
(* and terminates the worker: its messages are never delivered after, and  *)
(* what it held is gone with it.                                           *)
(***************************************************************************)
\* The manager is done with the termination of a thread: the thread is not
\* in threadRunning and the queue has nothing that could be taken.
Handled(S, thread) == thread \notin Range(S.threadRunning) /\ ~drainCondition(S)

\* super.terminate(): the worker is gone
superTerminate(S, thread) ==
    [S EXCEPT
        !.handles[thread].inbox = <<>>, !.handles[thread].outbox = <<>>,
        !.handles[thread].data = EmptyObject, !.handles[thread].threadId = 0,
        !.handles[thread].started = FALSE, !.handles[thread].thrown = FALSE]

\* Mutant: the listener of execute() runs before the manager's.
terminate_executeFirst(S, thread) ==
    LET eventResult == S.handles[thread].result IN
    CHOOSE result \in
        {superTerminate(threadTerminated(
             [S1 EXCEPT !.tasks[S.handles[thread].task] =
                            executeListener(@, eventResult, Handled(S1, thread))],
             thread), thread) :
             S1 \in {[S EXCEPT !.handles[thread].fired = @ + 1]}} : TRUE

\* terminate(): S1 is the coordinator after the manager's listener, as the
\* listener of execute() finds it.
terminate(S, thread) ==
    LET eventResult == S.handles[thread].result IN
    CHOOSE result \in
        {superTerminate(
             [S1 EXCEPT !.tasks[S.handles[thread].task] =
                            executeListener(@, eventResult, Handled(S1, thread))],
             thread) :
             S1 \in {threadTerminated([S EXCEPT !.handles[thread].fired = @ + 1], thread)}} : TRUE

\* Mutant: the loop ends after the first thread.
postMessageAll_first(hs, threads, message) ==
    IF threads = <<>> THEN hs
    ELSE [hs EXCEPT ![Head(threads)].inbox = Append(@, message)]

RECURSIVE postMessageAll(_, _, _)
\* for (let thread of threads) thread.postMessage(message)
postMessageAll(hs, threads, message) ==
    IF threads = <<>> THEN hs
    ELSE postMessageAll([hs EXCEPT ![Head(threads)].inbox = Append(@, message)],
                        Tail(threads), message)

\* Mutant: a property that already has a value keeps it.
updateSharedMemory_firstWins(S, property, value) ==
    [S EXCEPT
        !.sharedMemory = IF @[property] = 0 THEN [@ EXCEPT ![property] = value] ELSE @,
        !.handles = postMessageAll(@, S.threadRunning, UpdateMessage(property, value))]

\* Mutant: the threads are told and the coordinator's own object is not set.
updateSharedMemory_noStore(S, property, value) ==
    [S EXCEPT !.handles = postMessageAll(@, S.threadRunning, UpdateMessage(property, value))]

\* updateSharedMemory(property, value)
updateSharedMemory(S, property, value) ==
    [S EXCEPT !.sharedMemory[property] = value,
              !.handles = postMessageAll(@, S.threadRunning, UpdateMessage(property, value))]

(***************************************************************************)
(* The message of a worker at the head of those not yet delivered reaches  *)
(* the listeners of the handle: the one of WebThread stores the value of a *)
(* "thread-terminate" message and calls terminate(), the one of            *)
(* createThread passes a "shared-memory-updated" message on.               *)
(***************************************************************************)
\* Mutant: the update is posted to the other threads only, not to the one
\* whose message it was.
deliver_notToOriginator(S, thread) ==
    LET data == Head(S.handles[thread].outbox)
        S1 == [S EXCEPT !.handles[thread].outbox = Tail(@)]
    IN  IF data.type = "thread-terminate"
        THEN terminate([S1 EXCEPT !.handles[thread].result = data.value], thread)
        ELSE IF data.type = "shared-memory-updated"
        THEN [updateSharedMemory(S1, data.property, data.value) EXCEPT
                 !.handles[thread].inbox = S1.handles[thread].inbox]
        ELSE S1

\* Mutant: terminate() is called before the value is stored.
deliver_terminateFirst(S, thread) ==
    LET data == Head(S.handles[thread].outbox)
        S1 == [S EXCEPT !.handles[thread].outbox = Tail(@)]
    IN  IF data.type = "thread-terminate"
        THEN [terminate(S1, thread) EXCEPT !.handles[thread].result = data.value]
        ELSE S1

\* Mutant: the listener of createThread looks for the type of the messages
\* that the coordinator posts.
deliver_wrongType(S, thread) ==
    LET data == Head(S.handles[thread].outbox)
        S1 == [S EXCEPT !.handles[thread].outbox = Tail(@)]
    IN  IF data.type = "thread-terminate"
        THEN terminate([S1 EXCEPT !.handles[thread].result = data.value], thread)
        ELSE IF data.type = "shared-memory-update"
        THEN updateSharedMemory(S1, data.property, data.value)
        ELSE S1

deliver(S, thread) ==
    LET data == Head(S.handles[thread].outbox)
        S1 == [S EXCEPT !.handles[thread].outbox = Tail(@)]
    IN  IF data.type = "thread-terminate"
        THEN terminate([S1 EXCEPT !.handles[thread].result = data.value], thread)
        ELSE IF data.type = "shared-memory-updated"
        THEN updateSharedMemory(S1, data.property, data.value)
        ELSE S1

(***************************************************************************)
(* The worker's side (createSharedMemory, exit).                           *)
(***************************************************************************)
\* self.postMessage(message)
postMessage(S, thread, message) == [S EXCEPT !.handles[thread].outbox = Append(@, message)]

\* self.exit(value): the body ends there when exitFunction throws
exit(S, thread, value) ==
    IF checkForTransferable(value, <<>>, 1).thrown
    THEN [S EXCEPT !.handles[thread].thrown = TRUE]
    ELSE postMessage(S, thread, exitFunction(value))

\* shared[prop] = val: the set trap of the worker's proxy
workerSet(S, thread, prop, val) ==
    postMessage([S EXCEPT !.handles[thread].data[prop] = val], thread,
                UpdatedMessage(prop, val))

\* Mutant: the body is started when the id is received.
receive_startOnId(S, thread) ==
    LET data == Head(S.handles[thread].inbox)
        S1 == [S EXCEPT !.handles[thread].inbox = Tail(@)]
    IN  CASE data.type = "shared-memory-update" ->
                 [S1 EXCEPT !.handles[thread].data[data.property] = data.value]
          [] data.type = "shared-memory-id" ->
                 [S1 EXCEPT !.handles[thread].threadId = data.value,
                            !.handles[thread].started = TRUE]
          [] data.type = "shared-memory-init" ->
                 [S1 EXCEPT !.handles[thread].data = ObjectAssign(@, data.value),
                            !.handles[thread].started = TRUE]

\* The worker's listener of "message" takes the first message posted to it.
receive(S, thread) ==
    LET data == Head(S.handles[thread].inbox)
        S1 == [S EXCEPT !.handles[thread].inbox = Tail(@)]
    IN  CASE data.type = "shared-memory-update" ->
                 [S1 EXCEPT !.handles[thread].data[data.property] = data.value]
          [] data.type = "shared-memory-id" ->
                 [S1 EXCEPT !.handles[thread].threadId = data.value]
          [] data.type = "shared-memory-init" ->
                 [S1 EXCEPT !.handles[thread].data = ObjectAssign(@, data.value),
                            !.handles[thread].started = TRUE]

\* Mutant: the bound is 0 instead of 1.
limitAccepted_zero(value) == ~isNaN(value) /\ value.num2 >= 0

\* !isNaN(value) && value >= 1
limitAccepted(value) == ~isNaN(value) /\ value.num2 >= 2

\* Mutant: the setter does not look at the queue (as it did before the drain
\* was added to it).
setLimit_noDrain(S, input) ==
    LET value == Number(input) IN
    IF limitAccepted(value)
    THEN [S EXCEPT !.threadLimit = MathRound(value.num2)]
    ELSE S

RECURSIVE preempt(_)
preempt(S) ==
    IF Len(S.threadRunning) > S.threadLimit
    THEN preempt(terminate(S, S.threadRunning[Len(S.threadRunning)]))
    ELSE S

\* Mutant: the setter terminates the handles in excess of the new limit.
setLimit_preempt(S, input) ==
    LET value == Number(input) IN
    IF limitAccepted(value)
    THEN preempt(updateThreadQueue([S EXCEPT !.threadLimit = MathRound(value.num2)]))
    ELSE S

\* set limit(value)
setLimit(S, input) ==
    LET value == Number(input) IN
    IF limitAccepted(value)
    THEN updateThreadQueue([S EXCEPT !.threadLimit = MathRound(value.num2)])
    ELSE S

\* Mutant: run() admits one handle too many.
runCondition_le(S) == Len(S.threadRunning) <= S.threadLimit

\* threadRunning.length < threadLimit
runCondition(S) == Len(S.threadRunning) < S.threadLimit

\* Mutant: unshift instead of push.
enqueue_front(queue, task) == <<task>> \o queue

\* threadQueue.push([threadFunction, resolve, reject])
enqueue(queue, task) == Append(queue, task)

\* run(threadFunction): the task is the next one submitted; its record keeps
\* whether run() put it on the queue
run(S, spawns) ==
    LET task == Len(S.tasks) + 1
        new == [spawns |-> spawns, promise |-> "pending", queued |-> ~runCondition(S),
                execute |-> "none", value |-> Null, settled |-> 0, shifted |-> 0,
                handled |-> FALSE]
        S1 == [S EXCEPT !.tasks = Append(@, new)]
    IN  IF runCondition(S1)
        THEN executeThread(S1, task)
        ELSE [S1 EXCEPT !.threadQueue = enqueue(@, task)]

(***************************************************************************)
(* execute(threadFunction): calls run() and awaits its promise; what       *)
(* follows the await runs later, in a microtask, once the promise of run() *)
(* is settled: it adds the listener of "terminate" to the handle, or       *)
(* rejects when run() rejected.                                            *)
(***************************************************************************)
execute(S, spawns) ==
    LET S1 == run(S, spawns) IN
    [S1 EXCEPT !.tasks[Len(S1.tasks)].execute = "awaiting"]

\* const thread = await this.run(threadFunction); thread.addEventListener(...)
resume(S, task) ==
    IF S.tasks[task].promise = "resolved"
    THEN [S EXCEPT !.tasks[task].execute = "listening"]
    ELSE [S EXCEPT !.tasks[task].execute = "rejected"]

\* A microtask is due: execute() awaits a promise of run() that is settled.
Resumable(S, task) == S.tasks[task].execute = "awaiting" /\ S.tasks[task].promise # "pending"

RECURSIVE terminateAll(_, _)
\* for (let thread of threads) thread.terminate()
terminateAll(S, threads) ==
    IF threads = <<>> THEN S
    ELSE terminateAll(terminate(S, Head(threads)), Tail(threads))

RECURSIVE terminateLive(_, _)
terminateLive(S, i) ==
    IF i > Len(S.threadRunning) THEN S
    ELSE terminateLive(terminate(S, S.threadRunning[i]), i + 1)

\* Mutant: the loop runs over threadRunning itself, which shrinks under it (as
\* it did before the copy was taken).
purge_live(S) == terminateLive([S EXCEPT !.threadQueue = <<>>], 1)

\* Mutant: the queue is emptied after the threads were terminated.
purge_queueLast(S) == [terminateAll(S, S.threadRunning) EXCEPT !.threadQueue = <<>>]

\* Mutant: the queue is not emptied.
purge_keepsQueue(S) == terminateAll(S, S.threadRunning)

\* purge()
purge(S) ==
    LET threads == S.threadRunning IN
    terminateAll([S EXCEPT !.threadQueue = <<>>], threads)

(***************************************************************************)
(* History: the number of run() calls, each with a task that spawns, made  *)
(* since the manager was last idle with nothing else done in between; -1   *)
(* when something else was done.                                           *)
(***************************************************************************)
Idle(S) == S.threadRunning = <<>> /\ S.threadQueue = <<>>

NextBurst(S, cleanRun) ==
    IF Idle(S) THEN 0
    ELSE IF cleanRun /\ burst >= 0 THEN burst + 1
    ELSE -1

Init ==
    /\ threadLimit = DefaultLimit
    /\ sharedMemory = EmptyObject
    /\ threadRunning = <<>>
    /\ threadQueue = <<>>
    /\ tasks = <<>>
    /\ handles = <<>>
    /\ burst = 0

\* Threads.run(threadFunction), called by the user or by execute(), whose only
\* use of the manager's state is this call.  The task can be spawned or not.
Run(spawns) ==
    /\ Len(tasks) < MaxTasks
    /\ \E S \in {run(State, spawns)} :
           Commit(S) /\ burst' = NextBurst(S, spawns)

\* Threads.limit = input
SetLimit(input) ==
    /\ \E S \in {setLimit(State, input)} :
           Commit(S) /\ burst' = NextBurst(S, FALSE)

\* get count()
count == Len(threadRunning)

\* The delivery of a message is a task of the event loop: it waits for the
\* microtasks that are due.
NoMicrotask == \A task \in 1..Len(tasks) : ~Resumable(State, task)

\* The worker of a handle calls exit(null) and its "thread-terminate" message,
\* which follows the messages it posted before, reaches the WebThread's
\* listener, which calls this.terminate().  A worker that was terminated
\* delivers no message.
ThreadExit(thread) ==
    /\ thread \in 1..Len(handles)
    /\ handles[thread].fired = 0
    /\ handles[thread].outbox = <<>>
    /\ NoMicrotask
    /\ \E S \in {deliver(exit(State, thread, Null), thread)} :
           Commit(S) /\ burst' = NextBurst(S, FALSE)

\* The number of terminate() calls made on handles that had terminated before.
RECURSIVE Repeats(_)
Repeats(hs) ==
    IF hs = <<>> THEN 0
    ELSE Max(Head(hs).fired - 1, 0) + Repeats(Tail(hs))

\* thread.terminate() called by the user of the handle, terminated or not
Terminate(thread) ==
    /\ thread \in 1..Len(handles)
    /\ handles[thread].fired = 0 \/ Repeats(handles) < MaxRepeats
    /\ \E S \in {terminate(State, thread)} :
           Commit(S) /\ burst' = NextBurst(S, FALSE)

\* Threads.purge()
Purge ==
    /\ \E S \in {purge(State)} :
           Commit(S) /\ burst' = NextBurst(S, FALSE)

\* Threads.execute(threadFunction)
Execute(spawns) ==
    /\ Len(tasks) < MaxTasks
    /\ \E S \in {execute(State, spawns)} :
           Commit(S) /\ burst' = NextBurst(S, spawns)

\* The microtask that resumes execute() after its await.
Resume(task) ==
    /\ task \in 1..Len(tasks)
    /\ Resumable(State, task)
    /\ Commit(resume(State, task))
    /\ UNCHANGED burst

\* The worker of a handle calls exit(value), once.
WorkerExit(thread, value) ==
    /\ thread \in 1..Len(handles)
    /\ handles[thread].fired = 0
    /\ ~handles[thread].thrown
    /\ \A i \in 1..Len(handles[thread].outbox) :
           handles[thread].outbox[i].type # "thread-terminate"
    /\ Commit(exit(State, thread, value))
    /\ UNCHANGED burst

IsUpdate(message) == message.type \in {"shared-memory-update", "shared-memory-updated"}

RECURSIVE InFlight(_)
\* The messages that carry a property of the shared memory and were posted to
\* or by the workers of the handles and not yet received.
InFlight(hs) ==
    IF hs = <<>> THEN 0
    ELSE Len(SelectSeq(Head(hs).inbox, IsUpdate)) + Len(SelectSeq(Head(hs).outbox, IsUpdate))
         + InFlight(Tail(hs))

\* Bound: n more of these messages can be posted.
Room(n) == InFlight(handles) + n <= MaxInFlight

\* Bound: the message of a worker can be replaced by n updates. The updates of
\* one message may exceed the bound by one, so that the messages of two
\* workers that are in flight together can both be processed.
RoomToProcess(n) == InFlight(handles) - 1 + n <= MaxInFlight + 1

\* The first message of a worker not yet delivered is delivered.
Deliver(thread) ==
    /\ thread \in 1..Len(handles)
    /\ handles[thread].outbox # <<>>
    /\ NoMicrotask
    /\ Head(handles[thread].outbox).type = "shared-memory-updated" => RoomToProcess(count)
    /\ \E S \in {deliver(State, thread)} :
           Commit(S) /\ burst' = NextBurst(S, FALSE)

\* The worker of a handle receives the first message posted to it.
WorkerReceive(thread) ==
    /\ thread \in 1..Len(handles)
    /\ handles[thread].inbox # <<>>
    /\ Commit(receive(State, thread))
    /\ UNCHANGED burst

\* The body of a task, once started, sets a property of shared.
WorkerSet(thread, prop, val) ==
    /\ thread \in 1..Len(handles)
    /\ handles[thread].started
    /\ handles[thread].fired = 0
    /\ Room(1)
    /\ Commit(workerSet(State, thread, prop, val))
    /\ UNCHANGED burst

\* Threads.shared[prop] = val: the set trap of sharedMemoryProxy
SharedSet(prop, val) ==
    /\ Room(count)
    /\ \E S \in {updateSharedMemory(State, prop, val)} :
           Commit(S) /\ burst' = NextBurst(S, FALSE)

Next ==
    \/ \E spawns \in BOOLEAN : Run(spawns)
    \/ \E input \in LimitInputs : SetLimit(input)
    \/ \E thread \in 1..Len(handles) : ThreadExit(thread)
    \/ \E thread \in 1..Len(handles) : Terminate(thread)
    \/ Purge

Spec == Init /\ [][Next]_vars

(***************************************************************************)
(* The runs in which purge() is never called and every running handle      *)
(* terminates in the end: the worker of a handle that nobody terminates    *)
(* calls exit().  These runs are kept shorter, and the setter is given     *)
(* whole numbers and 0 only.                                               *)
(***************************************************************************)
LiveLimitInputs == {[type |-> "number", num2 |-> 2 * n] : n \in 0..MaxLimit}

NextLive ==
    \/ \E spawns \in BOOLEAN : Len(tasks) < MaxLiveTasks /\ Run(spawns)
    \/ \E input \in LiveLimitInputs : SetLimit(input)
    \/ \E thread \in 1..Len(handles) : ThreadExit(thread)
    \/ \E thread \in 1..Len(handles) : Terminate(thread)

LiveSpec ==
    /\ Init
    /\ [][NextLive]_vars
    /\ \A thread \in 1..MaxLiveTasks : WF_vars(ThreadExit(thread))

(***************************************************************************)
(* The runs of execute(): tasks are given to execute(), their workers call *)
(* exit() with a value, and the message is delivered later, unless the     *)
(* handle is terminated before.                                            *)
(***************************************************************************)
ExecLimitInputs == {[type |-> "number", num2 |-> 2 * n] : n \in 1..2}

ExecNext ==
    \/ \E spawns \in BOOLEAN : Len(tasks) < MaxExecTasks /\ Execute(spawns)
    \/ \E task \in 1..Len(tasks) : Resume(task)
    \/ \E input \in ExecLimitInputs : SetLimit(input)
    \/ \E thread \in 1..Len(handles), value \in ExitPayloads : WorkerExit(thread, value)
    \/ \E thread \in 1..Len(handles) : Deliver(thread)
    \/ \E thread \in 1..Len(handles) : Terminate(thread)
    \/ Purge

ExecSpec == Init /\ [][ExecNext]_vars

(***************************************************************************)
(* The runs of exit() with values that hold other values.                  *)
(***************************************************************************)
TransferNext ==
    \/ Len(tasks) < MaxExecTasks /\ Execute(TRUE)
    \/ \E task \in 1..Len(tasks) : Resume(task)
    \/ \E thread \in 1..Len(handles), value \in TransferPayloads : WorkerExit(thread, value)
    \/ \E thread \in 1..Len(handles) : Deliver(thread)

TransferSpec == Init /\ [][TransferNext]_vars

(***************************************************************************)
(* The runs of the shared memory: the coordinator and the bodies of the    *)
(* tasks set properties, and the messages that carry them are received one *)
(* by one.  A body calls exit() once it has started.                       *)
(***************************************************************************)
SharedLimitInputs == {[type |-> "number", num2 |-> 2]}

SharedNext ==
    \/ Len(tasks) < MaxSharedTasks /\ Run(TRUE)
    \/ \E input \in SharedLimitInputs : SetLimit(input)
    \/ \E write \in Writes : SharedSet(write[1], write[2])
    \/ \E thread \in 1..Len(handles), write \in Writes :
           WorkerSet(thread, write[1], write[2])
    \/ \E thread \in 1..Len(handles) : WorkerReceive(thread)
    \/ \E thread \in 1..Len(handles) : Deliver(thread)
    \/ \E thread \in 1..Len(handles) : handles[thread].started /\ ThreadExit(thread)

SharedSpec == Init /\ [][SharedNext]_vars

(***************************************************************************)
(* The runs in which every property has one writer: the body of the first  *)
(* task sets "a" and the body of the second sets "b", and the coordinator  *)
(* sets nothing.                                                           *)
(***************************************************************************)
Writer(property) == IF property = "a" THEN 1 ELSE 2

OwnKeyNext ==
    \/ Len(tasks) < MaxSharedTasks /\ Run(TRUE)
    \/ \E write \in Writes :
           Writer(write[1]) <= Len(handles) /\ WorkerSet(Writer(write[1]), write[1], write[2])
    \/ \E thread \in 1..Len(handles) : WorkerReceive(thread)
    \/ \E thread \in 1..Len(handles) : Deliver(thread)

OwnKeySpec == Init /\ [][OwnKeyNext]_vars

(***************************************************************************)
(* What the claims speak of.                                               *)
(***************************************************************************)
\* The tasks launched, in the order of their launch.
LaunchOrder == [h \in 1..Len(handles) |-> handles[h].task]

Launched == Range(LaunchOrder)

StrictlyIncreasing(seq) == \A i, j \in 1..Len(seq) : i < j => seq[i] < seq[j]

\* C1, as stated: in every reachable state the running count is at most the
\* current limit.
C1_Original == count <= threadLimit

\* C1, amended: no step takes the running count above the current limit.  After
\* every step the count is at most the limit, or it has not grown and exceeds
\* the limit only because it did so before or because this step lowered the
\* limit.
C1_Amended ==
    [][\/ count' <= threadLimit'
       \/ /\ count' <= count
          /\ count > threadLimit \/ threadLimit' < threadLimit]_vars

\* The limit was set, the ceiling is reached and tasks wait behind it.
C1_Witness == count = threadLimit /\ threadLimit # DefaultLimit /\ threadQueue # <<>>

\* C2: every handle was pushed on threadRunning, by run() or by the drain of the
\* queue, when threadRunning was strictly shorter than the limit.
C2_SlotFree == \A h \in 1..Len(handles) : handles[h].slotFree

\* Handles launched by run() and handles launched from the queue fill the limit.
C2_Witness ==
    /\ count = threadLimit
    /\ \E h \in 1..Len(handles) : tasks[handles[h].task].queued
    /\ \E h \in 1..Len(handles) : ~tasks[handles[h].task].queued

\* C3: N > L submissions to an idle manager with limit L, none failing to
\* spawn and nothing else happening, give L running handles and N - L queued
\* tasks.
C3_Burst ==
    burst > threadLimit => count = threadLimit /\ Len(threadQueue) = burst - threadLimit

\* Four submissions under a limit of two: two run, two wait.
C3_Witness == burst >= threadLimit + 2 /\ threadLimit >= 2

\* C4: tasks are launched in the order of their submission, and no task is
\* launched while a task submitted before it waits in the queue: the tasks
\* launched, in launch order, followed by the queue are in submission order.
C4_Fifo == StrictlyIncreasing(LaunchOrder \o threadQueue)

\* Two tasks that waited in the queue were launched, one after the other.
C4_Witness ==
    \E h1, h2 \in 1..Len(handles) :
        h1 < h2 /\ tasks[handles[h1].task].queued /\ tasks[handles[h2].task].queued


(***************************************************************************)
(* Claims about the queue, the limit setter and purge().                   *)
(***************************************************************************)
Settled(t) == t \in 1..Len(tasks) /\ tasks[t].promise # "pending"

\* C5: when purge() is never called and every running handle terminates in the
\* end, every task in the queue is launched in the end: its promise is
\* resolved or, when it cannot be spawned, rejected.
C5_QueuedLaunched ==
    \A t \in 1..MaxLiveTasks : (t \in Range(threadQueue)) ~> Settled(t)

\* The queue has emptied into threadRunning as handles terminated.
C5_Witness ==
    /\ threadQueue = <<>>
    /\ \E h \in 1..Len(handles) : handles[h].fired > 0
    /\ \E t \in 1..Len(tasks) : tasks[t].queued /\ tasks[t].promise = "resolved"
    /\ \E t \in 1..Len(tasks) : tasks[t].queued /\ tasks[t].promise = "rejected"

\* Every task in the queue can be spawned.
QueueSpawns == \A i \in 1..Len(threadQueue) : tasks[threadQueue[i]].spawns

\* The step launched the first k tasks of the queue, in the queue's order, and
\* nothing else.
HeadLaunched(k) ==
    /\ Len(handles') = Len(handles) + k
    /\ \A i \in 1..k : handles'[Len(handles) + i].task = threadQueue[i]
    /\ \A i \in 1..k : tasks'[threadQueue[i]].promise = "resolved"
    /\ threadQueue' = SubSeq(threadQueue, k + 1, Len(threadQueue))
    /\ threadRunning' = threadRunning \o [i \in 1..k |-> Len(handles) + i]

\* C6, as stated: raising the limit to n with q tasks queued, all of which can
\* be spawned, and c handles running launches exactly min(q, n - c) tasks, from
\* the head of the queue.
C6_Original ==
    [][(threadLimit' > threadLimit /\ threadQueue # <<>> /\ QueueSpawns)
          => HeadLaunched(Min(Len(threadQueue), threadLimit' - count))]_vars

\* C6, amended: it launches exactly max(0, min(q, n - c)) tasks, from the head
\* of the queue in the queue's order: none when the new limit is still not above
\* the running count.
C6_Amended ==
    [][(threadLimit' > threadLimit /\ threadQueue # <<>> /\ QueueSpawns)
          => HeadLaunched(Max(0, Min(Len(threadQueue), threadLimit' - count)))]_vars

\* No handle has terminated and no task has failed, so that the two queued tasks
\* that run were launched by a raise of the limit, which left a third waiting.
C6_Witness ==
    /\ \A h \in 1..Len(handles) : handles[h].fired = 0
    /\ \A t \in 1..Len(tasks) : tasks[t].promise # "rejected"
    /\ \E h1, h2 \in 1..Len(handles) :
           h1 < h2 /\ tasks[handles[h1].task].queued /\ tasks[handles[h2].task].queued
    /\ threadQueue # <<>>

\* The number n as a value given to the setter.
Num(n) == [type |-> "number", num2 |-> 2 * n]

\* C7: setting the limit to n, 1 <= n < count, sets the limit and leaves the
\* running handles and the queue as they are, firing no terminate event; and as
\* long as the limit stays, nothing is launched while the count exceeds it, and
\* a launch at the limit follows the termination of a running handle in the
\* same step.
C7_NoPreempt ==
    [][/\ \A n \in 1..(MaxLimit + 1) :
             (n < count /\ SetLimit(Num(n)))
                 => /\ threadLimit' = n
                    /\ UNCHANGED <<threadRunning, threadQueue, tasks, handles>>
       /\ (threadLimit' = threadLimit /\ count > threadLimit)
             => Len(handles') = Len(handles)
       /\ (threadLimit' = threadLimit /\ count >= threadLimit /\ Len(handles') > Len(handles))
             => \E h \in Range(threadRunning) : h \notin Range(threadRunning')]_vars

\* The limit was lowered below the running count while tasks wait.
C7_Witness == count > threadLimit /\ threadQueue # <<>>

\* The inputs the setter is to ignore: a number that is not positive, and what
\* is no number at all (NaN, undefined, a string that is no numeral).
NonPositive(input) == input.type = "number" /\ input.num2 <= 0

NonNumeric(input) ==
    \/ input.type \in {"NaN", "undefined"}
    \/ input.type = "string" /\ \E i \in 1..Len(input.chars) : Digit(input.chars[i]) < 0

IgnoredInputs == {input \in LimitInputs : NonPositive(input) \/ NonNumeric(input)}

\* C8: the setter ignores an input that is not positive or not numeric: the
\* limit, the running handles, the queue, the promises and the handles stay as
\* they are.
C8_Ignored ==
    [][(\E input \in IgnoredInputs : SetLimit(input))
          => UNCHANGED <<threadLimit, threadRunning, threadQueue, tasks, handles>>]_vars

\* With a limit set by the user, a full house and tasks waiting, the setter is
\* given 0 and NaN and changes nothing.
C8_Witness ==
    /\ threadLimit # DefaultLimit /\ count = threadLimit /\ threadQueue # <<>>
    /\ ENABLED (SetLimit(Num(0)) /\ UNCHANGED <<threadLimit, threadRunning, threadQueue>>)
    /\ ENABLED (SetLimit(NaN) /\ UNCHANGED <<threadLimit, threadRunning, threadQueue>>)

\* C9: purge() leaves no running handle and no queued task, and fires the
\* terminate event of every handle that was running exactly once (its first),
\* and of no other handle.
C9_Purge ==
    [][Purge =>
          /\ threadRunning' = <<>>
          /\ threadQueue' = <<>>
          /\ Len(handles') = Len(handles)
          /\ \A h \in 1..Len(handles) :
                IF h \in Range(threadRunning)
                THEN handles[h].fired = 0 /\ handles'[h].fired = 1
                ELSE handles'[h].fired = handles[h].fired]_vars

\* A task is abandoned: it is not in the queue, it was not launched and its
\* promise is pending.
Abandoned(t) ==
    /\ tasks[t].promise = "pending"
    /\ t \notin Range(threadQueue)
    /\ t \notin Launched

AbandonedNext(t) ==
    /\ tasks'[t].promise = "pending"
    /\ t \notin Range(threadQueue')
    /\ \A h \in 1..Len(handles') : handles'[h].task # t

\* purge() has terminated two running handles and dropped a queued task.
C9_Witness ==
    /\ threadRunning = <<>> /\ threadQueue = <<>>
    /\ \E t \in 1..Len(tasks) : Abandoned(t)
    /\ \E h1, h2 \in 1..Len(handles) :
           h1 # h2 /\ handles[h1].fired = 1 /\ handles[h2].fired = 1

\* C10: purge() abandons every task in the queue, and an abandoned task stays
\* abandoned: it is never launched and its promise is never resolved nor
\* rejected.
C10_Abandoned ==
    [][/\ (threadQueue # <<>> /\ Purge) => \A t \in Range(threadQueue) : AbandonedNext(t)
       /\ \A t \in 1..Len(tasks) : Abandoned(t) => AbandonedNext(t)]_vars

\* A task was abandoned, and a task submitted after it runs.
C10_Witness ==
    \E t \in 1..Len(tasks) :
        Abandoned(t) /\ \E h \in Range(threadRunning) : handles[h].task > t

(***************************************************************************)
(* Claims about execute() and the terminate event.                         *)
(***************************************************************************)
\* The step fires the terminate event of a handle.
Fires(h) == handles'[h].fired > handles[h].fired

\* C11: each time the terminate event of the handle of a task given to
\* execute() fires, at whatever point after the launch and whoever terminates
\* the handle, the promise of execute() is resolved.
C11_ResolvesOnEvent ==
    [][\A h \in 1..Len(handles) :
          (Fires(h) /\ tasks[handles[h].task].execute # "none")
              => tasks'[handles[h].task].execute = "resolved"]_vars

\* Two values have the same type and contents, whatever realm they belong to.
SameContents(v, w) ==
    /\ v.type = w.type
    /\ v.type = "string" => v.chars = w.chars
    /\ v.type = "ArrayBuffer"
          => Len(v.bytes) = Len(w.bytes) /\ \A i \in 1..Len(v.bytes) : v.bytes[i] = w.bytes[i]

\* The step resolves the promise of execute() of a task.
Resolves(t) == tasks[t].execute = "listening" /\ tasks'[t].execute = "resolved"

\* The worker of a handle has not called exit().
NeverSignalled(h) == handles[h].outbox = <<>> /\ handles[h].result = Null

C13_FiresOnce == \A h \in 1..Len(handles) : handles[h].fired <= 1

\* C14: terminate() on a handle that has terminated fires no event and leaves
\* threadRunning and threadQueue as they are, and purge() right after purge()
\* fires no event and changes nothing.
C14_Idempotent ==
    [][/\ \A h \in 1..Len(handles) :
             (handles[h].fired > 0 /\ Terminate(h))
                 => UNCHANGED <<threadRunning, threadQueue, handles>>
       /\ (threadRunning = <<>> /\ threadQueue = <<>> /\ Purge)
             => UNCHANGED <<threadLimit, threadRunning, threadQueue, tasks, handles>>]_vars

\* The step tries to launch a task: one it takes from the queue, purge() apart,
\* or the one submitted, when it is not put on the queue.
Tried(t) ==
    \/ t \in Range(threadQueue) /\ t \notin Range(threadQueue') /\ ~Purge
    \/ t = Len(tasks) + 1 /\ t <= Len(tasks') /\ t \notin Range(threadQueue')

\* C15: when a task that cannot be spawned is tried, its promise is rejected,
\* it gets no handle, and the tasks behind it in the queue are launched while
\* slots are free; when it is tried by run() itself, the running handles are
\* those that were.
C15_SpawnFailure ==
    [][\A t \in 1..Len(tasks') :
          (Tried(t) /\ ~tasks'[t].spawns)
              => /\ tasks'[t].promise = "rejected"
                 /\ \A h \in 1..Len(handles') : handles'[h].task # t
                 /\ t = Len(tasks) + 1 => threadRunning' = threadRunning
                 /\ threadQueue' = <<>> \/ Len(threadRunning') >= threadLimit']_vars

\* A task that cannot be spawned was taken from the queue and rejected, and the
\* task behind it in the queue runs.
C15_Witness ==
    \E t1, t2 \in 1..Len(tasks) :
        /\ t1 < t2 /\ tasks[t1].queued /\ tasks[t2].queued
        /\ tasks[t1].promise = "rejected"
        /\ \E h \in Range(threadRunning) : handles[h].task = t2

(***************************************************************************)
(* Claims about the shared memory.                                         *)
(***************************************************************************)
IsInit(message) == message.type = "shared-memory-init"

\* The step delivers the "shared-memory-updated" message of a worker, which
\* updateSharedMemory processes.
Processes(h) ==
    Deliver(h) /\ Head(handles[h].outbox).type = "shared-memory-updated"

\* The update that the step posts when it processes the message of h.
Posted(h) ==
    UpdateMessage(Head(handles[h].outbox).property, Head(handles[h].outbox).value)

\* C16: the worker of a handle is posted, at the launch, the id and then the
\* shared memory as the coordinator holds it at the launch, whether its task
\* waited in the queue or not, and no update from before; the snapshot waits
\* unchanged until the worker receives it, and the replica of the worker is
\* this snapshot when the body starts.
C16_InitialReplica ==
    [][/\ \A h \in (Len(handles) + 1)..Len(handles') :
             handles'[h].inbox = <<IdMessage(h), InitMessage(sharedMemory')>>
       /\ \A h \in 1..Len(handles) :
             /\ (~handles[h].started /\ handles'[h].fired = 0)
                    => SelectSeq(handles'[h].inbox, IsInit)
                           = IF handles'[h].started THEN <<>>
                             ELSE SelectSeq(handles[h].inbox, IsInit)
             /\ (~handles[h].started /\ handles'[h].started)
                    => /\ IsInit(Head(handles[h].inbox))
                       /\ handles'[h].data = Head(handles[h].inbox).value]_vars

\* The worker of a task that waited in the queue has received its id and is
\* about to receive a snapshot with a value that the coordinator holds.
C16_Witness ==
    \E h \in Range(threadRunning) :
        /\ tasks[handles[h].task].queued
        /\ handles[h].threadId = h
        /\ handles[h].inbox # <<>>
        /\ IsInit(Head(handles[h].inbox))
        /\ Head(handles[h].inbox).value["a"] = 2
        /\ sharedMemory["a"] = 2

\* C17: a body that sets a property posts one message with the property and
\* the value, and when the coordinator processes the message its replica has
\* this value for the property, and what it had for the others.
C17_VisibleToCoordinator ==
    [][\A h \in 1..Len(handles) :
          /\ \A write \in Writes :
                 WorkerSet(h, write[1], write[2])
                     => handles'[h].outbox
                            = Append(handles[h].outbox, UpdatedMessage(write[1], write[2]))
          /\ Processes(h)
                 => sharedMemory' = [sharedMemory EXCEPT ![Posted(h).property] = Posted(h).value]]_vars

\* The message of a body that set a property to a value the coordinator does
\* not hold is about to be processed.
C17_Witness ==
    \E h \in Range(threadRunning) :
        /\ handles[h].outbox # <<>>
        /\ Head(handles[h].outbox).type = "shared-memory-updated"
        /\ sharedMemory[Head(handles[h].outbox).property] # Head(handles[h].outbox).value
        /\ handles[h].data[Head(handles[h].outbox).property] = Head(handles[h].outbox).value
        /\ ENABLED Deliver(h)

\* C18: when the coordinator processes the update of a handle it posts the
\* update to every other running handle and posts nothing to the handle that
\* reported it.
C18_NotToOriginator ==
    [][\A h \in 1..Len(handles) :
          Processes(h)
              => /\ handles'[h].inbox = handles[h].inbox
                 /\ \A g \in Range(threadRunning) \ {h} :
                        handles'[g].inbox = Append(handles[g].inbox, Posted(h))]_vars

\* The worker of a handle is alive in the step and after it.
Alive(g) == handles[g].fired = 0 /\ handles'[g].fired = 0

\* C19: when the coordinator processes the update of a handle, the update is
\* posted once to every other running handle; the updates posted to a worker
\* stay, in their order, until the worker receives them, one by one from the
\* first, and the worker that receives an update has its value in its replica.
C19_DeliveredToOthers ==
    [][\A g \in 1..Len(handles) :
          /\ \A h \in 1..Len(handles) :
                 (Processes(h) /\ g # h /\ g \in Range(threadRunning))
                     => handles'[g].inbox = Append(handles[g].inbox, Posted(h))
          /\ (Alive(g) /\ ~WorkerReceive(g))
                 => SubSeq(handles'[g].inbox, 1, Len(handles[g].inbox)) = handles[g].inbox
          /\ (Alive(g) /\ WorkerReceive(g))
                 => /\ handles'[g].inbox = Tail(handles[g].inbox)
                    /\ Head(handles[g].inbox).type = "shared-memory-update"
                           => handles'[g].data =
                                  [handles[g].data EXCEPT ![Head(handles[g].inbox).property]
                                                              = Head(handles[g].inbox).value]]_vars

\* The body of one handle has set a property to a value that neither the
\* coordinator nor the started worker of another running handle holds, and its
\* message is about to be processed.
C19_Witness ==
    \E g, h \in Range(threadRunning) :
        /\ g # h
        /\ handles[h].outbox = <<UpdatedMessage("a", 2)>> /\ handles[h].data["a"] = 2
        /\ handles[g].started /\ handles[g].data["a"] = 1 /\ handles[g].inbox = <<>>
        /\ sharedMemory["a"] = 1
        /\ ENABLED Deliver(h)

\* C20: an assignment to a property of Threads.shared gives the coordinator's
\* replica the value for the property, so that reading it gives the value, and
\* posts one update to every running handle; it creates no handle, and the
\* queue and the tasks in it are as before.
C20_SharedSet ==
    [][\A write \in Writes :
          SharedSet(write[1], write[2])
              => /\ sharedMemory' = [sharedMemory EXCEPT ![write[1]] = write[2]]
                 /\ sharedMemory'[write[1]] = write[2]
                 /\ Len(handles') = Len(handles)
                 /\ \A h \in 1..Len(handles) :
                        handles'[h].inbox =
                            IF h \in Range(threadRunning)
                            THEN Append(handles[h].inbox, UpdateMessage(write[1], write[2]))
                            ELSE handles[h].inbox
                 /\ UNCHANGED <<threadRunning, threadQueue, tasks>>]_vars

\* The coordinator has set a property while one handle, the only one so far,
\* runs and a task waits in the queue: the update waits at the handle.
C20_Witness ==
    /\ Len(handles) = 1 /\ threadRunning = <<1>> /\ threadQueue # <<>>
    /\ handles[1].started /\ handles[1].data = EmptyObject /\ handles[1].outbox = <<>>
    /\ handles[1].inbox = <<UpdateMessage("a", 1)>>
    /\ sharedMemory["a"] = 1

\* C21: the coordinator's value of a property changes only when the
\* coordinator processes a write to the property, the message of a worker or
\* an assignment to Threads.shared, and is then the value of this write,
\* whatever it held and whatever the workers hold: the write processed last
\* gives the value.
C21_LastWriteWins ==
    [][/\ \A h \in 1..Len(handles) :
             Processes(h) => sharedMemory'[Posted(h).property] = Posted(h).value
       /\ \A k \in Keys :
             sharedMemory'[k] # sharedMemory[k]
                 => \/ \E h \in 1..Len(handles) :
                           /\ Processes(h)
                           /\ Posted(h).property = k
                           /\ Posted(h).value = sharedMemory'[k]
                    \/ \E write \in Writes :
                           /\ SharedSet(write[1], write[2])
                           /\ write = <<k, sharedMemory'[k]>>]_vars

\* Two bodies have set the same property to different values; the message of
\* one has been processed and the coordinator holds its value, the message of
\* the other is about to be processed.
C21_Witness ==
    \E g, h \in Range(threadRunning) :
        /\ g # h
        /\ handles[h].data["a"] = 2 /\ handles[h].outbox = <<>>
        /\ sharedMemory["a"] = 2
        /\ handles[g].data["a"] = 1 /\ handles[g].outbox = <<UpdatedMessage("a", 1)>>
        /\ ENABLED Deliver(g)

\* The values that implement Transferable: a raw byte buffer, a message
\* channel, a bitmap, an offscreen render target.
MoveEligible(value) ==
    value.type \in {"ArrayBuffer", "MessagePort", "ImageBitmap", "OffscreenCanvas"}

RECURSIVE SubValues(_)
\* The values reachable in a value, the value included; a reference of an
\* object to itself or to an object around it leads to a value already there.
SubValues(value) ==
    {value} \cup
    UNION {IF value.props[i].type = "up" THEN {} ELSE SubValues(value.props[i]) :
               i \in 1..Len(Enumerable(value))}

\* The step is exit(value) in the body of h and posts its message.
Exits(h, value) == WorkerExit(h, value) /\ ~handles'[h].thrown

\* C22: the message that exit(value) posts comes with a move list that holds
\* the move-eligible values reachable in value, value included, and nothing
\* else: an empty list when there is none.
C22_MoveList ==
    [][\A h \in 1..Len(handles), value \in TransferPayloads :
          Exits(h, value)
              => LET message == handles'[h].outbox[Len(handles'[h].outbox)]
                 IN  Range(message.transfer) = {v \in SubValues(value) : MoveEligible(v)}]_vars

\* C28: exit(value) posts its message whatever the value, one that refers to
\* itself included: the walk over the value returns, and the value posted is
\* the value passed, as the walk found it.
C28_WalkTerminates ==
    [][\A h \in 1..Len(handles), value \in TransferPayloads :
          WorkerExit(h, value)
              => /\ ~handles'[h].thrown
                 /\ Len(handles'[h].outbox) = Len(handles[h].outbox) + 1
                 /\ handles'[h].outbox[Len(handles'[h].outbox)].value
                        = structuredClone(value, "main")]_vars

\* The messages posted to the worker of handle h and not yet received, given
\* what the worker has received: the id, then the snapshot, then updates.
ChannelOrder(handle, h) ==
    LET inbox == handle.inbox
        Updates(from) == \A i \in from..Len(inbox) : inbox[i].type = "shared-memory-update"
    IN  IF handle.threadId = 0
        THEN /\ ~handle.started
             /\ Len(inbox) >= 2 /\ inbox[1] = IdMessage(h) /\ IsInit(inbox[2])
             /\ Updates(3)
        ELSE /\ handle.threadId = h
             /\ IF handle.started THEN Updates(1)
                ELSE inbox # <<>> /\ IsInit(inbox[1]) /\ Updates(2)

\* C23: the worker of a handle is posted the id of the handle, then the
\* shared memory of the launch, once, and then only updates, and receives
\* them in this order; its body starts when it receives the snapshot and at
\* no other step, and then threadId is the id of the handle and the replica
\* is the snapshot, which is the coordinator's shared memory at the launch.
C23_LaunchProtocol ==
    [][/\ \A h \in 1..Len(handles') :
             handles'[h].fired = 0 => ChannelOrder(handles'[h], h)
       /\ \A h \in (Len(handles) + 1)..Len(handles') :
             /\ handles'[h].inbox = <<IdMessage(h), InitMessage(sharedMemory')>>
             /\ handles'[h].data = EmptyObject
       /\ \A h \in 1..Len(handles) :
             /\ (~handles[h].started /\ ~handles'[h].started /\ handles'[h].fired = 0)
                    => SelectSeq(handles'[h].inbox, IsInit) = SelectSeq(handles[h].inbox, IsInit)
             /\ (~handles[h].started /\ handles'[h].started)
                    => /\ WorkerReceive(h)
                       /\ IsInit(Head(handles[h].inbox))
                       /\ handles'[h].threadId = h
                       /\ handles'[h].data = Head(handles[h].inbox).value]_vars

\* The worker of a handle has received its id and not yet the snapshot, which
\* holds a value; an update of the coordinator waits behind the snapshot.
C23_Witness ==
    \E h \in Range(threadRunning) :
        /\ handles[h].threadId = h /\ ~handles[h].started
        /\ Len(handles[h].inbox) = 2
        /\ IsInit(handles[h].inbox[1]) /\ handles[h].inbox[1].value["a"] # 0
        /\ handles[h].inbox[2].type = "shared-memory-update"
        /\ ENABLED WorkerReceive(h)

\* The step is the termination of the running handle h, and of no other.
Terminates(h) ==
    /\ h \in Range(threadRunning)
    /\ Fires(h)
    /\ \A g \in 1..Len(handles) : Fires(g) => g = h

\* C24: the termination of a running handle removes this handle and no other
\* from threadRunning and runs the drain of the queue: the count is one less
\* than before plus the handles the drain launches, and no queued task that
\* could be taken stays.  A task leaves the queue only in a step in which a
\* running handle terminates (purge, which discards the queue, is such a
\* step) or the limit is raised: never by run(), by a limit refused, kept or
\* lowered, or by the failure of a task that was not queued.
C24_LaunchTriggers ==
    [][/\ \A h \in 1..Len(handles) :
             Terminates(h)
                 => /\ Range(threadRunning) \ Range(threadRunning') = {h}
                    /\ Len(threadRunning')
                           = Len(threadRunning) - 1 + (Len(handles') - Len(handles))
                    /\ ~(threadQueue' # <<>> /\ Len(threadRunning') < threadLimit')
       /\ (\E task \in Range(threadQueue) : task \notin Range(threadQueue'))
             => \/ \E h \in Range(threadRunning) : Fires(h)
                \/ threadLimit' > threadLimit]_vars

\* A handle has terminated, a task that waited in the queue was launched
\* after it and runs, and another task still waits.
C24_Witness ==
    \E h \in 1..Len(handles), g \in Range(threadRunning) :
        /\ handles[h].fired > 0 /\ h \notin Range(threadRunning)
        /\ g > h /\ tasks[handles[g].task].queued
        /\ threadQueue # <<>>

\* The calls of updateThreadQueue nested at most, beyond the first, in an
\* operation that leaves the coordinator as S.
Reentries(S) == Max(S.stack.deepest - 1, 0)

\* C25: every drain returns, a failing task making it re-enter once: no task
\* is taken from the queue twice, the callbacks of a promise are called at
\* most once, once (reject) for every task that failed and once (resolve) for
\* every task that was launched, and whatever operation comes next, the
\* termination of a handle, a value given to the limit or a task given to
\* run, nests no more re-entries of the drain than tasks wait in the queue.
C25_DrainBounded ==
    /\ \A t \in 1..Len(tasks) :
           /\ tasks[t].shifted <= 1 /\ tasks[t].settled <= 1
           /\ tasks[t].shifted = 1 <=> (tasks[t].queued /\ tasks[t].promise # "pending")
           /\ tasks[t].promise = "rejected" <=> (tasks[t].settled = 1 /\ ~tasks[t].spawns)
           /\ tasks[t].promise = "resolved" <=> (tasks[t].settled = 1 /\ tasks[t].spawns)
           /\ t \in Launched <=> tasks[t].promise = "resolved"
    /\ \A h \in 1..Len(handles) :
           Reentries(terminate(State, h)) <= Len(threadQueue)
    /\ \A input \in LimitInputs :
           Reentries(setLimit(State, input)) <= Len(threadQueue)
    /\ \A spawns \in BOOLEAN :
           Reentries(run(State, spawns)) <= Len(threadQueue)

\* Two tasks that fail and then a task that spawns wait in the queue, and a
\* handle runs whose termination makes the drain take the three of them, two
\* re-entries deep.
C25_Witness ==
    \E h \in Range(threadRunning) :
        /\ Len(threadQueue) = 3
        /\ ~tasks[threadQueue[1]].spawns /\ ~tasks[threadQueue[2]].spawns
        /\ tasks[threadQueue[3]].spawns
        /\ Reentries(terminate(State, h)) = 2
        /\ terminate(State, h).threadQueue = <<>>
        /\ ENABLED Terminate(h)

\* The promise of run() for task t is resolved in the step.
Resolved(t) ==
    /\ tasks'[t].promise = "resolved"
    /\ t <= Len(tasks) => tasks[t].promise = "pending"

\* C26 as stated: when the promise of run() for a task is resolved, the
\* handle of the task is in threadRunning and its worker has received the
\* snapshot of the shared memory.
C26_Original ==
    [][\A t \in 1..Len(tasks') :
          Resolved(t)
              => \E h \in 1..Len(handles') :
                     /\ handles'[h].task = t
                     /\ h \in Range(threadRunning')
                     /\ handles'[h].started]_vars

\* C26, amended: when the promise of run() for a task is resolved, the handle
\* of the task was created in the same step, is in threadRunning, and the
\* snapshot of the shared memory has been posted to its worker, behind the
\* id and before any update; the worker has not received it yet.
C26_Amended ==
    [][\A t \in 1..Len(tasks') :
          Resolved(t)
              => \E h \in (Len(handles) + 1)..Len(handles') :
                     /\ handles'[h].task = t
                     /\ h \in Range(threadRunning')
                     /\ handles'[h].inbox = <<IdMessage(h), InitMessage(sharedMemory')>>
                     /\ ~handles'[h].started]_vars

\* The promise of a task that waited in the queue is resolved and its handle
\* runs; the snapshot, which holds a value, waits to be received.
C26_Witness ==
    \E h \in Range(threadRunning) :
        /\ tasks[handles[h].task].queued
        /\ tasks[handles[h].task].promise = "resolved"
        /\ handles[h].inbox = <<IdMessage(h), InitMessage(sharedMemory)>>
        /\ sharedMemory["a"] # 0
        /\ ~handles[h].started

\* C27: no two handles are of the same task, a task has a handle exactly
\* when its promise is resolved, no handle is twice in threadRunning, and the
\* handles in threadRunning are the ones that have not terminated; a handle
\* stays the handle of its task, and a handle that has terminated stays
\* terminated, so that it is not in threadRunning after any step; the handles
\* a step creates are new, one for every task whose promise it resolves.
C27_OneHandlePerTask ==
    /\ [](/\ \A g, h \in 1..Len(handles) : handles[g].task = handles[h].task => g = h
          /\ \A t \in 1..Len(tasks) : t \in Launched <=> tasks[t].promise = "resolved"
          /\ \A i, j \in 1..Len(threadRunning) : threadRunning[i] = threadRunning[j] => i = j
          /\ \A h \in 1..Len(handles) : h \in Range(threadRunning) <=> handles[h].fired = 0)
    /\ [][/\ \A h \in 1..Len(handles) :
                 /\ handles'[h].task = handles[h].task
                 /\ handles[h].fired > 0 => handles'[h].fired > 0
          /\ \A h \in (Len(handles) + 1)..Len(handles') : Resolved(handles'[h].task)]_vars

\* terminate() was called again on a handle that had terminated, and a
\* handle created after it runs: the first has not come back.
C27_Witness ==
    \E h \in 1..Len(handles), g \in Range(threadRunning) :
        /\ handles[h].fired = 2 /\ h \notin Range(threadRunning)
        /\ g > h

\* C29: between the operations of the coordinator, tasks wait in the queue
\* only while at least as many handles run as the limit allows.
C29_WorkConservation ==
    threadQueue # <<>> => Len(threadRunning) >= threadLimit

\* A task waits while as many handles run as the limit, which was lowered,
\* allows; before, a handle has terminated and a task taken from the queue
\* has failed.
C29_Witness ==
    /\ threadQueue # <<>>
    /\ Len(threadRunning) = threadLimit /\ threadLimit < DefaultLimit
    /\ \E h \in 1..Len(handles) : handles[h].fired > 0
    /\ \E t \in 1..Len(tasks) : tasks[t].queued /\ tasks[t].promise = "rejected"

\* No message of or for a running handle is in flight.
Quiescent ==
    \A h \in Range(threadRunning) : handles[h].inbox = <<>> /\ handles[h].outbox = <<>>

\* C30: when every message posted by or to the running handles has been
\* received, the replica of each of them is the coordinator's shared memory.
C30_Convergence ==
    Quiescent => \A h \in Range(threadRunning) : handles[h].data = sharedMemory

\* Two handles run, nothing is in flight, and the replicas hold values for
\* both properties.
C30_Witness ==
    /\ Quiescent
    /\ Len(threadRunning) = 2
    /\ sharedMemory["a"] = 2 /\ sharedMemory["b"] = 1
    /\ \A h \in Range(threadRunning) : handles[h].started /\ handles[h].data = sharedMemory

\* The value that the body of h gave last to a property that only it sets:
\* the one of its last message not yet processed, and with no such message
\* the one the coordinator holds.
LastWrite(h, property) ==
    LET own == SelectSeq(handles[h].outbox,
                         LAMBDA message : IsUpdate(message) /\ message.property = property)
    IN  IF own # <<>> THEN own[Len(own)].value ELSE sharedMemory[property]

\* C31: a body that is the only one to set a property reads, whenever it
\* reads, the value it gave the property last: no message received in between
\* brings back a value it gave before.
C31_ReadYourWrites ==
    \A property \in Keys :
        (Writer(property) <= Len(handles) /\ handles[Writer(property)].started)
            => handles[Writer(property)].data[property]
                   = LastWrite(Writer(property), property)

\* purge() creates no handle and settles no promise of run(): the tasks
\* are the ones there were, and the ones that waited in the queue have no
\* handle after the step.
NothingLaunched ==
    /\ Len(handles') = Len(handles)
    /\ Len(tasks') = Len(tasks)
    /\ \A t \in 1..Len(tasks) : tasks'[t].promise = tasks[t].promise
    /\ \A t \in Range(threadQueue) : t \notin Range([h \in 1..Len(handles') |-> handles'[h].task])

\* C32: purge() launches nothing, although it terminates the running handles
\* while tasks may wait: a step in which a handle is created, a promise of
\* run() is settled or a task of the queue gets a handle is not purge().
C32_PurgeLaunchesNothing ==
    [][~NothingLaunched => ~Purge]_vars

\* purge() has terminated the only handle there was while two tasks waited:
\* nothing runs, and the two tasks have no handle and pending promises.
C32_Witness ==
    /\ threadRunning = <<>> /\ threadQueue = <<>>
    /\ Len(handles) = 1 /\ handles[1].fired = 1
    /\ \E t1, t2 \in 1..Len(tasks) : t1 # t2 /\ Abandoned(t1) /\ Abandoned(t2)

\* The promise of execute() for task t is resolved in the step.
ExecuteResolved(t) == tasks'[t].execute = "resolved" /\ tasks[t].execute # "resolved"

\* C33: when the listener of execute() resolves the promise of a task, the
\* manager's listener has run: the handle of the task has terminated and is
\* not in threadRunning, and the queue has been drained, so that after the
\* step no task waits while a slot is free.
C33_ManagerFirst ==
    [][\A t \in 1..Len(tasks) :
          ExecuteResolved(t)
              => /\ tasks'[t].handled
                 /\ \E h \in 1..Len(handles) :
                        /\ handles[h].task = t
                        /\ Fires(h)
                        /\ h \notin Range(threadRunning')
                 /\ ~(threadQueue' # <<>> /\ Len(threadRunning') < threadLimit')]_vars

\* The promise of execute() for a task is resolved with the value its body
\* passed to exit(), and a task that waited in the queue runs on a handle
\* created after the handle of the first.
C33_Witness ==
    \E h \in 1..Len(handles), g \in Range(threadRunning) :
        /\ tasks[handles[h].task].execute = "resolved"
        /\ tasks[handles[h].task].value # Null
        /\ tasks[handles[h].task].handled
        /\ h \notin Range(threadRunning)
        /\ g > h /\ tasks[handles[g].task].queued

====
